---------------------------- MODULE Spec2Model ----------------------------
(***************************************************************************)
(* ChrisUE::FEnhancedJsonConverter (EnhancedJsonConverter.h).              *)
(*                                                                         *)
(* The converter is a stateless class of four static templates.  A state   *)
(* of the model is the frame of the most recent call: the struct type the  *)
(* templates were instantiated for, the caller's arguments, the caller's   *)
(* out-parameters after the call, the returned value, and the log of the   *)
(* collaborator and hook invocations the call made, in order.              *)
(*                                                                         *)
(* The generic mapper (FJsonObjectConverter), the text codec               *)
(* (FJsonSerializer) and the per-type hooks are not part of the header;    *)
(* they are modelled by small concrete functions over a JSON object with   *)
(* one declared field (name) and one hook-managed field (tags).            *)
(***************************************************************************)
EXTENDS Integers, Sequences, FiniteSets, TLC

(***************************************************************************)
(* Bounds                                                                  *)
(***************************************************************************)
MaxTags == 2

Tags == {"x", "y"}

RECURSIVE SeqsUpTo(_)
SeqsUpTo(n) ==
    IF n = 0 THEN {<<>>}
    ELSE LET shorter == SeqsUpTo(n - 1)
         IN  shorter \cup {Append(s, t) : s \in {q \in shorter : Len(q) = n - 1}, t \in Tags}

TagLists == SeqsUpTo(MaxTags)

(***************************************************************************)
(* Data: struct instances, JSON objects (TSharedPtr<FJsonObject>), text    *)
(***************************************************************************)
\* A name the generic mapper has no JSON representation for.
UnsupportedName == "<unsupported>"

StructNames == {"", "a", UnsupportedName}

\* Item { name : string (UPROPERTY) } plus the hook-managed member tags.
Structs == [name : StructNames, tags : TagLists]

DefaultStruct == [name |-> "", tags |-> <<>>]

\* The null TSharedPtr.
NullJson == [valid |-> FALSE, nameKind |-> "absent", name |-> "", tagsKind |-> "absent", tags |-> <<>>]

EmptyJson == [valid |-> TRUE, nameKind |-> "absent", name |-> "", tagsKind |-> "absent", tags |-> <<>>]

NameFields == {[nameKind |-> "absent", name |-> ""],
               [nameKind |-> "string", name |-> ""],
               [nameKind |-> "string", name |-> "a"],
               [nameKind |-> "number", name |-> "123"]}

\* tagsKind "nan" is a value the text writer cannot serialize.
TagFields == {[tagsKind |-> "absent", tags |-> <<>>], [tagsKind |-> "nan", tags |-> <<>>]}
             \cup {[tagsKind |-> "array", tags |-> l] : l \in TagLists}

JsonObjects == {[valid |-> TRUE, nameKind |-> n.nameKind, name |-> n.name,
                 tagsKind |-> t.tagsKind, tags |-> t.tags] : n \in NameFields, t \in TagFields}

JsonPtrs == JsonObjects \cup {NullJson}

IsValid(JsonObject) == JsonObject.valid

(***************************************************************************)
(* Invocation log entries                                                  *)
(***************************************************************************)
Event(fn, json, struct, ok, out) ==
    [fn |-> fn, json |-> json, struct |-> struct, ok |-> ok, out |-> out]

MapperIn == "FJsonObjectConverter::JsonObjectToUStruct"
MapperOut == "FJsonObjectConverter::UStructToJsonObject"
Parser == "FJsonSerializer::Deserialize"
Writer == "FJsonSerializer::Serialize"
ImportHook == "PostJsonImport"
ExportHook == "PostJsonExport"

(***************************************************************************)
(* External collaborator: generic reflective mapper                        *)
(***************************************************************************)
\* Populates the declared field from the JSON object; a missing key leaves
\* the field alone, a value of the wrong type fails the mapping.
FJsonObjectConverter_JsonObjectToUStruct(JsonObject, OutStruct) ==
    CASE JsonObject.nameKind = "absent" -> [ret |-> TRUE, OutStruct |-> OutStruct]
      [] JsonObject.nameKind = "string" -> [ret |-> TRUE, OutStruct |-> [OutStruct EXCEPT !.name = JsonObject.name]]
      [] OTHER -> [ret |-> FALSE, OutStruct |-> OutStruct]

\* Produces a JSON object holding the declared field only, or null.
FJsonObjectConverter_UStructToJsonObject(InStruct) ==
    IF InStruct.name = UnsupportedName
    THEN NullJson
    ELSE [valid |-> TRUE, nameKind |-> "string", name |-> InStruct.name,
          tagsKind |-> "absent", tags |-> <<>>]

(***************************************************************************)
(* External collaborator: text codec                                       *)
(***************************************************************************)
NameTokens(JsonObject) ==
    CASE JsonObject.nameKind = "absent" -> <<>>
      [] JsonObject.nameKind = "string" -> <<"name", "str", JsonObject.name>>
      [] OTHER -> <<"name", "num", JsonObject.name>>

TagTokens(JsonObject) ==
    IF JsonObject.tagsKind = "absent" THEN <<>>
    ELSE <<"tags", "[">> \o JsonObject.tags \o <<"]">>

\* What a failed writer may leave in the caller's string.
WriterResidues == {"untouched", "partial"}

\* The writer is created on the caller's string and writes through it.
FJsonSerializer_Serialize(JsonObject, OutJsonString, residue) ==
    IF JsonObject.tagsKind = "nan"
    THEN [ret |-> FALSE,
          OutJsonString |-> IF residue = "partial"
                            THEN <<"{">> \o NameTokens(JsonObject) \o <<"tags">>
                            ELSE OutJsonString]
    ELSE [ret |-> TRUE,
          OutJsonString |-> <<"{">> \o NameTokens(JsonObject) \o TagTokens(JsonObject) \o <<"}">>]

ParseName(body) ==
    IF Len(body) >= 3 /\ body[1] = "name" /\ body[2] \in {"str", "num"}
    THEN [nameKind |-> IF body[2] = "str" THEN "string" ELSE "number",
          name |-> body[3], rest |-> SubSeq(body, 4, Len(body))]
    ELSE [nameKind |-> "absent", name |-> "", rest |-> body]

ParseTags(rest) ==
    IF rest = <<>>
    THEN [ok |-> TRUE, tagsKind |-> "absent", tags |-> <<>>]
    ELSE IF /\ Len(rest) >= 3
            /\ rest[1] = "tags"
            /\ rest[2] = "["
            /\ rest[Len(rest)] = "]"
            /\ \A i \in 3..(Len(rest) - 1) : rest[i] \in Tags
         THEN [ok |-> TRUE, tagsKind |-> "array", tags |-> SubSeq(rest, 3, Len(rest) - 1)]
         ELSE [ok |-> FALSE, tagsKind |-> "absent", tags |-> <<>>]

\* Returns the success flag and the object left in the caller's pointer.
\* The text "null" parses, but leaves the pointer null.
FJsonSerializer_Deserialize(JsonString) ==
    IF JsonString = <<"null">>
    THEN [ret |-> TRUE, JsonObject |-> NullJson]
    ELSE IF Len(JsonString) >= 2 /\ JsonString[1] = "{" /\ JsonString[Len(JsonString)] = "}"
         THEN LET n == ParseName(SubSeq(JsonString, 2, Len(JsonString) - 1))
                  t == ParseTags(n.rest)
              IN  IF t.ok
                  THEN [ret |-> TRUE,
                        JsonObject |-> [valid |-> TRUE, nameKind |-> n.nameKind, name |-> n.name,
                                        tagsKind |-> t.tagsKind, tags |-> t.tags]]
                  ELSE [ret |-> FALSE, JsonObject |-> NullJson]
         ELSE [ret |-> FALSE, JsonObject |-> NullJson]

(***************************************************************************)
(* Struct types: what a type declares under each conventional name, and    *)
(* what its hook does when it has one                                      *)
(***************************************************************************)
\* The members a type declares under one hook name.
\*   none      nothing of that name
\*   hook      one public method with the expected signature
\*   other     one public method taking an int
\*   field     one public int data member
\*   overload  the expected method and an overload taking an int
Members(decl) ==
    CASE decl = "none" -> {}
      [] decl = "hook" -> {[member |-> "function", sig |-> "hook"]}
      [] decl = "other" -> {[member |-> "function", sig |-> "other"]}
      [] decl = "field" -> {[member |-> "data", sig |-> "int"]}
      [] decl = "overload" -> {[member |-> "function", sig |-> "hook"],
                               [member |-> "function", sig |-> "other"]}

ImportSides == {[import |-> "none", importBody |-> "n/a"],
                [import |-> "other", importBody |-> "n/a"],
                [import |-> "field", importBody |-> "n/a"],
                [import |-> "hook", importBody |-> "tags"],
                [import |-> "hook", importBody |-> "clobber"],
                [import |-> "overload", importBody |-> "tags"]}

ExportSides == {[export |-> "none", exportBody |-> "n/a"],
                [export |-> "other", exportBody |-> "n/a"],
                [export |-> "field", exportBody |-> "n/a"],
                [export |-> "hook", exportBody |-> "tags"],
                [export |-> "hook", exportBody |-> "same"],
                [export |-> "hook", exportBody |-> "fresh"],
                [export |-> "hook", exportBody |-> "null"],
                [export |-> "hook", exportBody |-> "nan"],
                [export |-> "overload", exportBody |-> "tags"]}

StructTypes == {[import |-> i.import, importBody |-> i.importBody,
                 export |-> e.export, exportBody |-> e.exportBody] : i \in ImportSides, e \in ExportSides}

\* void PostJsonImport(const TSharedPtr<FJsonObject>& JsonObject)
\*   tags     reads the hook-managed field back out of the JSON object
\*   clobber  also recomputes the declared field
PostJsonImport(TStruct, Struct, JsonObject) ==
    LET read == IF JsonObject.tagsKind = "array" THEN JsonObject.tags ELSE <<>>
    IN  IF TStruct.importBody = "clobber"
        THEN [name |-> "", tags |-> read]
        ELSE [Struct EXCEPT !.tags = read]

\* TSharedPtr<FJsonObject> PostJsonExport(TSharedPtr<FJsonObject> JsonObject) const
\*   tags   injects the hook-managed field      same  returns its argument
\*   fresh  returns a wholly different object   null  returns a null pointer
\*   nan    injects a value the text writer cannot serialize
PostJsonExport(TStruct, Struct, JsonObject) ==
    CASE TStruct.exportBody = "tags" -> [JsonObject EXCEPT !.tagsKind = "array", !.tags = Struct.tags]
      [] TStruct.exportBody = "same" -> JsonObject
      [] TStruct.exportBody = "fresh" -> EmptyJson
      [] TStruct.exportBody = "null" -> NullJson
      [] OTHER -> [JsonObject EXCEPT !.tagsKind = "nan", !.tags = <<>>]

(***************************************************************************)
(* Type trait detectors                                                    *)
(***************************************************************************)
\* decltype(&C::Name) names a type exactly when Name denotes a single
\* member; the literal 0 converts to any pointer to member, so the YesType
\* overload is then viable and preferred over the ellipsis.
AddressOfMemberIsWellFormed(decl) == Cardinality(Members(decl)) = 1

THasPostJsonImport(T) == AddressOfMemberIsWellFormed(T.import)

THasPostJsonExport(T) == AddressOfMemberIsWellFormed(T.export)

\* Struct.Name(JsonObject) is well formed when overload resolution finds a
\* method of the expected signature.
CallIsWellFormed(decl) == \E m \in Members(decl) : m.member = "function" /\ m.sig = "hook"

\* The branch guarded by if constexpr is instantiated when the trait is true.
Compiles(T) ==
    /\ THasPostJsonImport(T) => CallIsWellFormed(T.import)
    /\ THasPostJsonExport(T) => CallIsWellFormed(T.export)

(***************************************************************************)
(* Internal helper functions                                               *)
(***************************************************************************)
\* Variant: the hook is called whether or not the trait reports it.
CallPostJsonImportIfExists_Unconditional(T, Struct, JsonObject) ==
    [Struct |-> PostJsonImport(T, Struct, JsonObject),
     calls |-> <<Event(ImportHook, JsonObject, Struct, TRUE, NullJson)>>]

CallPostJsonImportIfExists(T, Struct, JsonObject) ==
    IF THasPostJsonImport(T)
    THEN [Struct |-> PostJsonImport(T, Struct, JsonObject),
          calls |-> <<Event(ImportHook, JsonObject, Struct, TRUE, NullJson)>>]
    ELSE [Struct |-> Struct, calls |-> <<>>]

\* Variant: the hook is called but the generic object is returned.
CallPostJsonExportIfExists_DiscardsResult(T, Struct, JsonObject) ==
    IF THasPostJsonExport(T)
    THEN LET out == PostJsonExport(T, Struct, JsonObject)
         IN  [ret |-> JsonObject, calls |-> <<Event(ExportHook, JsonObject, Struct, TRUE, out)>>]
    ELSE [ret |-> JsonObject, calls |-> <<>>]

CallPostJsonExportIfExists(T, Struct, JsonObject) ==
    IF THasPostJsonExport(T)
    THEN LET out == PostJsonExport(T, Struct, JsonObject)
         IN  [ret |-> out, calls |-> <<Event(ExportHook, JsonObject, Struct, TRUE, out)>>]
    ELSE [ret |-> JsonObject, calls |-> <<>>]

(***************************************************************************)
(* Public API                                                              *)
(***************************************************************************)
\* Variant: the hook runs before the mapper's result is looked at.
JsonObjectToUStruct_IgnoresMapperResult(TStruct, JsonObject, OutStruct) ==
    IF ~IsValid(JsonObject)
    THEN [ret |-> FALSE, OutStruct |-> OutStruct, calls |-> <<>>]
    ELSE LET m == FJsonObjectConverter_JsonObjectToUStruct(JsonObject, OutStruct)
             mapped == <<Event(MapperIn, JsonObject, m.OutStruct, m.ret, NullJson)>>
             h == CallPostJsonImportIfExists(TStruct, m.OutStruct, JsonObject)
         IN  [ret |-> m.ret, OutStruct |-> h.Struct, calls |-> mapped \o h.calls]

\* Variant: no IsValid test on the argument.
JsonObjectToUStruct_NoValidityCheck(TStruct, JsonObject, OutStruct) ==
    LET m == FJsonObjectConverter_JsonObjectToUStruct(JsonObject, OutStruct)
        mapped == <<Event(MapperIn, JsonObject, m.OutStruct, m.ret, NullJson)>>
    IN  IF ~m.ret
        THEN [ret |-> FALSE, OutStruct |-> m.OutStruct, calls |-> mapped]
        ELSE LET h == CallPostJsonImportIfExists(TStruct, m.OutStruct, JsonObject)
             IN  [ret |-> TRUE, OutStruct |-> h.Struct, calls |-> mapped \o h.calls]

\* Variant: the hook is handed only the fields the mapper did not consume.
JsonObjectToUStruct_PassesRemainder(TStruct, JsonObject, OutStruct) ==
    IF ~IsValid(JsonObject)
    THEN [ret |-> FALSE, OutStruct |-> OutStruct, calls |-> <<>>]
    ELSE LET m == FJsonObjectConverter_JsonObjectToUStruct(JsonObject, OutStruct)
             mapped == <<Event(MapperIn, JsonObject, m.OutStruct, m.ret, NullJson)>>
             remainder == [JsonObject EXCEPT !.nameKind = "absent", !.name = ""]
         IN  IF ~m.ret
             THEN [ret |-> FALSE, OutStruct |-> m.OutStruct, calls |-> mapped]
             ELSE LET h == CallPostJsonImportIfExists(TStruct, m.OutStruct, remainder)
                  IN  [ret |-> TRUE, OutStruct |-> h.Struct, calls |-> mapped \o h.calls]

JsonObjectToUStruct(TStruct, JsonObject, OutStruct) ==
    IF ~IsValid(JsonObject)
    THEN [ret |-> FALSE, OutStruct |-> OutStruct, calls |-> <<>>]
    ELSE LET m == FJsonObjectConverter_JsonObjectToUStruct(JsonObject, OutStruct)
             mapped == <<Event(MapperIn, JsonObject, m.OutStruct, m.ret, NullJson)>>
         IN  IF ~m.ret
             THEN [ret |-> FALSE, OutStruct |-> m.OutStruct, calls |-> mapped]
             ELSE LET h == CallPostJsonImportIfExists(TStruct, m.OutStruct, JsonObject)
                  IN  [ret |-> TRUE, OutStruct |-> h.Struct, calls |-> mapped \o h.calls]

\* Variant: no IsValid test on the mapper's object.
UStructToJsonObject_NoValidityCheck(TStruct, InStruct) ==
    LET JsonObject == FJsonObjectConverter_UStructToJsonObject(InStruct)
        mapped == <<Event(MapperOut, NullJson, InStruct, IsValid(JsonObject), JsonObject)>>
        h == CallPostJsonExportIfExists(TStruct, InStruct, JsonObject)
    IN  [ret |-> h.ret, calls |-> mapped \o h.calls]

UStructToJsonObject(TStruct, InStruct) ==
    LET JsonObject == FJsonObjectConverter_UStructToJsonObject(InStruct)
        mapped == <<Event(MapperOut, NullJson, InStruct, IsValid(JsonObject), JsonObject)>>
    IN  IF ~IsValid(JsonObject)
        THEN [ret |-> NullJson, calls |-> mapped]
        ELSE LET h == CallPostJsonExportIfExists(TStruct, InStruct, JsonObject)
             IN  [ret |-> h.ret, calls |-> mapped \o h.calls]

\* Variant: delegates to FJsonObjectConverter::JsonObjectToUStruct.
JsonStringToUStruct_CallsGenericConverter(TStruct, JsonString, OutStruct) ==
    LET p == FJsonSerializer_Deserialize(JsonString)
        parsed == <<Event(Parser, p.JsonObject, OutStruct, p.ret, p.JsonObject)>>
    IN  IF ~p.ret \/ ~IsValid(p.JsonObject)
        THEN [ret |-> FALSE, OutStruct |-> OutStruct, calls |-> parsed]
        ELSE LET m == FJsonObjectConverter_JsonObjectToUStruct(p.JsonObject, OutStruct)
             IN  [ret |-> m.ret, OutStruct |-> m.OutStruct,
                  calls |-> parsed \o <<Event(MapperIn, p.JsonObject, m.OutStruct, m.ret, NullJson)>>]

JsonStringToUStruct(TStruct, JsonString, OutStruct) ==
    LET p == FJsonSerializer_Deserialize(JsonString)
        parsed == <<Event(Parser, p.JsonObject, OutStruct, p.ret, p.JsonObject)>>
    IN  IF ~p.ret \/ ~IsValid(p.JsonObject)
        THEN [ret |-> FALSE, OutStruct |-> OutStruct, calls |-> parsed]
        ELSE LET d == JsonObjectToUStruct(TStruct, p.JsonObject, OutStruct)
             IN  [ret |-> d.ret, OutStruct |-> d.OutStruct, calls |-> parsed \o d.calls]

\* Variant: serializes the object of FJsonObjectConverter::UStructToJsonObject.
UStructToJsonString_SerializesGenericValue(TStruct, InStruct, OutJsonString, residue) ==
    LET e == UStructToJsonObject(TStruct, InStruct)
        g == FJsonObjectConverter_UStructToJsonObject(InStruct)
    IN  IF ~IsValid(e.ret)
        THEN [ret |-> FALSE, OutJsonString |-> OutJsonString, calls |-> e.calls]
        ELSE LET w == FJsonSerializer_Serialize(g, OutJsonString, residue)
             IN  [ret |-> w.ret, OutJsonString |-> w.OutJsonString,
                  calls |-> e.calls \o <<Event(Writer, g, InStruct, w.ret, NullJson)>>]

UStructToJsonString(TStruct, InStruct, OutJsonString, residue) ==
    LET e == UStructToJsonObject(TStruct, InStruct)
    IN  IF ~IsValid(e.ret)
        THEN [ret |-> FALSE, OutJsonString |-> OutJsonString, calls |-> e.calls]
        ELSE LET w == FJsonSerializer_Serialize(e.ret, OutJsonString, residue)
             IN  [ret |-> w.ret, OutJsonString |-> w.OutJsonString,
                  calls |-> e.calls \o <<Event(Writer, e.ret, InStruct, w.ret, NullJson)>>]

(***************************************************************************)
(* State: the frame of the most recent call                                *)
(***************************************************************************)
VARIABLES
    TStruct,         \* the struct type the templates are instantiated for
    op,              \* the entry point last called, "none" before any call
    JsonObject,      \* argument of JsonObjectToUStruct
    JsonString,      \* argument of JsonStringToUStruct
    InStruct,        \* argument of UStructToJsonObject / UStructToJsonString
    OutStruct0,      \* the caller's struct before a decode
    OutStruct,       \* the caller's struct after it
    OutJsonString0,  \* the caller's string before UStructToJsonString
    OutJsonString,   \* the caller's string after it
    ret,             \* returned flag (validity of the pointer for UStructToJsonObject)
    retJson,         \* pointer returned by UStructToJsonObject
    calls,           \* collaborator and hook invocations of the call, in order
    source           \* the struct whose text JsonStringToUStruct was given, if any

vars == <<TStruct, op, JsonObject, JsonString, InStruct, OutStruct0, OutStruct,
          OutJsonString0, OutJsonString, ret, retJson, calls, source>>

NoStruct == [name |-> "<none>", tags |-> <<>>]

\* Contents of the caller's struct and string before a call.
PreStructs == {DefaultStruct, [name |-> "a", tags |-> <<"x">>]}

PreTexts == {<<>>, <<"{", "}">>}

\* Texts handed to JsonStringToUStruct: every text the writer can emit for a
\* serializable object, the text "null", and malformed texts.
InputTexts ==
    {FJsonSerializer_Serialize(j, <<>>, "untouched").OutJsonString : j \in {o \in JsonObjects : o.tagsKind # "nan"}}
    \cup {<<>>, <<"null">>, <<"{">>, <<"{", "name", "}">>, <<"{", "tags", "[", "x", "}">>}

Init ==
    /\ TStruct \in StructTypes
    /\ op = "none"
    /\ JsonObject = NullJson
    /\ JsonString = <<>>
    /\ InStruct = DefaultStruct
    /\ OutStruct0 = DefaultStruct
    /\ OutStruct = DefaultStruct
    /\ OutJsonString0 = <<>>
    /\ OutJsonString = <<>>
    /\ ret = FALSE
    /\ retJson = NullJson
    /\ calls = <<>>
    /\ source = NoStruct

DecodeFromValue ==
    /\ Compiles(TStruct)
    /\ \E j \in JsonPtrs, s \in PreStructs :
         LET r == JsonObjectToUStruct(TStruct, j, s)
         IN  /\ op' = "JsonObjectToUStruct"
             /\ JsonObject' = j
             /\ OutStruct0' = s
             /\ OutStruct' = r.OutStruct
             /\ ret' = r.ret
             /\ calls' = r.calls
    /\ JsonString' = <<>>
    /\ InStruct' = DefaultStruct
    /\ OutJsonString0' = <<>>
    /\ OutJsonString' = <<>>
    /\ retJson' = NullJson
    /\ source' = NoStruct
    /\ UNCHANGED TStruct

EncodeToValue ==
    /\ Compiles(TStruct)
    /\ \E x \in Structs :
         LET r == UStructToJsonObject(TStruct, x)
         IN  /\ op' = "UStructToJsonObject"
             /\ InStruct' = x
             /\ retJson' = r.ret
             /\ ret' = IsValid(r.ret)
             /\ calls' = r.calls
    /\ JsonObject' = NullJson
    /\ JsonString' = <<>>
    /\ OutStruct0' = DefaultStruct
    /\ OutStruct' = DefaultStruct
    /\ OutJsonString0' = <<>>
    /\ OutJsonString' = <<>>
    /\ source' = NoStruct
    /\ UNCHANGED TStruct

DecodeFromText ==
    /\ Compiles(TStruct)
    /\ \E t \in InputTexts \cup {OutJsonString}, s \in PreStructs :
         LET r == JsonStringToUStruct(TStruct, t, s)
         IN  /\ op' = "JsonStringToUStruct"
             /\ JsonString' = t
             /\ OutStruct0' = s
             /\ OutStruct' = r.OutStruct
             /\ ret' = r.ret
             /\ calls' = r.calls
             /\ source' = IF op = "UStructToJsonString" /\ ret /\ t = OutJsonString
                          THEN InStruct
                          ELSE NoStruct
    /\ JsonObject' = NullJson
    /\ InStruct' = DefaultStruct
    /\ OutJsonString0' = <<>>
    /\ OutJsonString' = <<>>
    /\ retJson' = NullJson
    /\ UNCHANGED TStruct

EncodeToText ==
    /\ Compiles(TStruct)
    /\ \E x \in Structs, old \in PreTexts, residue \in WriterResidues :
         LET r == UStructToJsonString(TStruct, x, old, residue)
         IN  /\ op' = "UStructToJsonString"
             /\ InStruct' = x
             /\ OutJsonString0' = old
             /\ OutJsonString' = r.OutJsonString
             /\ ret' = r.ret
             /\ calls' = r.calls
    /\ JsonObject' = NullJson
    /\ JsonString' = <<>>
    /\ OutStruct0' = DefaultStruct
    /\ OutStruct' = DefaultStruct
    /\ retJson' = NullJson
    /\ source' = NoStruct
    /\ UNCHANGED TStruct

Next ==
    \/ DecodeFromValue
    \/ EncodeToValue
    \/ DecodeFromText
    \/ EncodeToText

Spec == Init /\ [][Next]_vars

(***************************************************************************)
(* Properties                                                              *)
(***************************************************************************)
Decoding == op \in {"JsonObjectToUStruct", "JsonStringToUStruct"}

Encoding == op \in {"UStructToJsonObject", "UStructToJsonString"}

Invocations(fn) == {i \in DOMAIN calls : calls[i].fn = fn}

\* The type declares a member of the conventional name that is callable
\* with the hook signature.
DeclaresMatchingHook(decl) == \E m \in Members(decl) : m.member = "function" /\ m.sig = "hook"

\* C1: in a decode, every invocation of the import hook is preceded, in the
\* same call, by an invocation of the generic mapper that returned success;
\* when the JSON object is invalid or the mapper fails, the hook is invoked
\* zero times.
C1_ImportHookOnlyAfterMapperSuccess ==
    Decoding =>
        /\ \A i \in Invocations(ImportHook) :
              \E j \in Invocations(MapperIn) : j < i /\ calls[j].ok
        /\ (op = "JsonObjectToUStruct" /\ ~IsValid(JsonObject)) => Invocations(ImportHook) = {}
        /\ (\E j \in Invocations(MapperIn) : ~calls[j].ok) => Invocations(ImportHook) = {}

C1_Witness ==
    /\ op = "JsonObjectToUStruct"
    /\ TStruct.import = "hook"
    /\ Len(calls) = 2
    /\ calls[1].fn = MapperIn /\ calls[1].ok
    /\ calls[2].fn = ImportHook

\* C2: in an encode, when the generic mapper returns an invalid object the
\* result is invalid and the export hook is invoked zero times; every
\* invocation of the export hook receives a valid object that the generic
\* mapper produced earlier in the same call.
C2_ExportHookOnlyOnValidMapperValue ==
    Encoding =>
        /\ (\E j \in Invocations(MapperOut) : ~IsValid(calls[j].out)) =>
              /\ ~ret
              /\ op = "UStructToJsonObject" => retJson = NullJson
              /\ Invocations(ExportHook) = {}
        /\ \A i \in Invocations(ExportHook) :
              /\ IsValid(calls[i].json)
              /\ \E j \in Invocations(MapperOut) : j < i /\ calls[j].out = calls[i].json

C2_Witness ==
    /\ op = "UStructToJsonObject"
    /\ TStruct.export = "hook"
    /\ Len(calls) = 2
    /\ calls[1].fn = MapperOut /\ IsValid(calls[1].out)
    /\ calls[2].fn = ExportHook /\ calls[2].json = calls[1].out

\* C3 (as stated): the result of UStructToJsonObject is the generic mapper's
\* value or the export hook's returned value, and it is invalid only when the
\* generic mapper returned an invalid value, whatever the export hook returns.
C3_InvalidOnlyFromMapper ==
    op = "UStructToJsonObject" =>
        /\ retJson \in {calls[i].out : i \in Invocations(MapperOut) \cup Invocations(ExportHook)}
        /\ ~IsValid(retJson) => \E j \in Invocations(MapperOut) : ~IsValid(calls[j].out)

\* C3 (amended): the result of UStructToJsonObject is the export hook's
\* returned value when the hook was invoked and the generic mapper's value
\* otherwise; it is invalid only when the generic mapper returned an invalid
\* value or the export hook itself returned an invalid value.
C3_ResultIsMapperOrHookValue ==
    op = "UStructToJsonObject" =>
        /\ Cardinality(Invocations(MapperOut)) = 1
        /\ Cardinality(Invocations(ExportHook)) <= 1
        /\ \A i \in Invocations(ExportHook) : retJson = calls[i].out
        /\ Invocations(ExportHook) = {} => \A j \in Invocations(MapperOut) : retJson = calls[j].out
        /\ ~IsValid(retJson) =>
              \/ \E j \in Invocations(MapperOut) : ~IsValid(calls[j].out)
              \/ \E i \in Invocations(ExportHook) : ~IsValid(calls[i].out)

C3_Witness ==
    /\ op = "UStructToJsonObject"
    /\ Len(calls) = 2
    /\ calls[2].fn = ExportHook
    /\ calls[2].out # calls[1].out
    /\ IsValid(calls[2].out)
    /\ retJson = calls[2].out

C5_DecodeFlagIsMapperFlag ==
    op = "JsonObjectToUStruct" =>
        /\ ret <=> (IsValid(JsonObject)
                    /\ FJsonObjectConverter_JsonObjectToUStruct(JsonObject, OutStruct0).ret)
        /\ ret <=> (\E j \in Invocations(MapperIn) : calls[j].ok)
        /\ ~IsValid(JsonObject) => calls = <<>> /\ OutStruct = OutStruct0

C5_Witness ==
    /\ op = "JsonObjectToUStruct"
    /\ ret
    /\ TStruct.importBody = "clobber"
    /\ Invocations(ImportHook) # {}
    /\ OutStruct # FJsonObjectConverter_JsonObjectToUStruct(JsonObject, OutStruct0).OutStruct

\* C6: for a type without an import hook (with or without an export hook),
\* JsonObjectToUStruct on a valid object yields the generic mapper's flag and
\* the generic mapper's struct; for a type without an export hook (with or
\* without an import hook), UStructToJsonObject returns the generic mapper's
\* value; in both cases no hook of either direction is invoked.
C6_PassThroughWithoutOwnHook ==
    /\ (op = "JsonObjectToUStruct" /\ TStruct.import = "none" /\ IsValid(JsonObject)) =>
          LET m == FJsonObjectConverter_JsonObjectToUStruct(JsonObject, OutStruct0)
          IN  /\ ret = m.ret
              /\ OutStruct = m.OutStruct
              /\ Invocations(ImportHook) \cup Invocations(ExportHook) = {}
    /\ (op = "UStructToJsonObject" /\ TStruct.export = "none") =>
          /\ retJson = FJsonObjectConverter_UStructToJsonObject(InStruct)
          /\ Invocations(ImportHook) \cup Invocations(ExportHook) = {}

C6_Witness ==
    /\ op = "JsonObjectToUStruct"
    /\ TStruct.import = "none"
    /\ TStruct.export = "hook"
    /\ ret
    /\ JsonObject.tagsKind = "array" /\ JsonObject.tags # <<>>
    /\ OutStruct0 # DefaultStruct
    /\ OutStruct.tags = OutStruct0.tags

\* A type whose import hook is the exact inverse of its export hook on the
\* hook-managed field.
RoundTripType(T) ==
    /\ T.import = "hook" /\ T.importBody = "tags"
    /\ T.export = "hook" /\ T.exportBody = "tags"

\* C7: for a type whose import hook inverts its export hook, encoding any
\* struct the generic mapper can export succeeds, and decoding the produced
\* text succeeds and yields a struct equal to the encoded one, the
\* hook-managed field included.
C7_RoundTrip ==
    RoundTripType(TStruct) =>
        /\ (op = "UStructToJsonString" /\ InStruct.name # UnsupportedName) => ret
        /\ (op = "JsonStringToUStruct" /\ source # NoStruct) => ret /\ OutStruct = source

C7_Witness ==
    /\ RoundTripType(TStruct)
    /\ op = "JsonStringToUStruct"
    /\ source = [name |-> "a", tags |-> <<"x", "y">>]
    /\ OutStruct0 # DefaultStruct
    /\ ret
    /\ OutStruct = source

\* C8: the detector reports a hook exactly for the types that declare a
\* member of the conventional name callable with the hook signature: it does
\* not report one for a same-named member of another signature, and a type
\* that declares a matching hook is reported, so a successful decode invokes
\* its import hook.
C8_DetectorMatchesSignature ==
    /\ THasPostJsonImport(TStruct) <=> DeclaresMatchingHook(TStruct.import)
    /\ THasPostJsonExport(TStruct) <=> DeclaresMatchingHook(TStruct.export)
    /\ (op = "JsonObjectToUStruct" /\ ret /\ DeclaresMatchingHook(TStruct.import)) =>
          Invocations(ImportHook) # {}

\* C9: JsonStringToUStruct fails without invoking the generic mapper or the
\* import hook when the parser reports failure or leaves an invalid object;
\* otherwise its flag, its effect on the struct and the invocations it makes
\* are those of JsonObjectToUStruct applied to the parsed object.
C9_DecodeFromTextDelegates ==
    op = "JsonStringToUStruct" =>
        LET p == FJsonSerializer_Deserialize(JsonString)
        IN  /\ Len(calls) >= 1 /\ calls[1].fn = Parser
            /\ IF ~p.ret \/ ~IsValid(p.JsonObject)
               THEN /\ ~ret
                    /\ OutStruct = OutStruct0
                    /\ Invocations(MapperIn) \cup Invocations(ImportHook) = {}
               ELSE LET d == JsonObjectToUStruct(TStruct, p.JsonObject, OutStruct0)
                    IN  /\ ret = d.ret
                        /\ OutStruct = d.OutStruct
                        /\ Tail(calls) = d.calls

C9_Witness ==
    /\ op = "JsonStringToUStruct"
    /\ ret
    /\ TStruct.import = "hook"
    /\ Len(calls) = 3
    /\ calls[3].fn = ImportHook
    /\ calls[3].json.tags # <<>>
    /\ OutStruct.tags = calls[3].json.tags

\* C10: in a decode the import hook is invoked at most once; when it is, it
\* runs on the struct exactly as the generic mapper left it, and its argument
\* is the full JSON object that was given to the generic mapper (for
\* JsonObjectToUStruct, the caller's argument).
C10_HookGetsOriginalValue ==
    Decoding =>
        /\ Cardinality(Invocations(ImportHook)) <= 1
        /\ \A i \in Invocations(ImportHook) :
              /\ i > 1
              /\ calls[i - 1].fn = MapperIn
              /\ calls[i].json = calls[i - 1].json
              /\ calls[i].struct = calls[i - 1].struct
              /\ op = "JsonObjectToUStruct" =>
                    /\ calls[i].json = JsonObject
                    /\ calls[i].struct =
                          FJsonObjectConverter_JsonObjectToUStruct(JsonObject, OutStruct0).OutStruct

C10_Witness ==
    /\ op = "JsonObjectToUStruct"
    /\ Cardinality(Invocations(ImportHook)) = 1
    /\ JsonObject.nameKind = "string" /\ JsonObject.name = "a"
    /\ JsonObject.tagsKind = "array" /\ JsonObject.tags = <<"x", "y">>
    /\ calls[2].json = JsonObject
    /\ calls[2].struct.name = "a"
    /\ OutStruct0 = DefaultStruct

=============================================================================
